---- MODULE Spec2Model ----
(***************************************************************************)
(* Model of the atomistic Hamiltonian cache (Hamiltonian_Atomistic.cpp)    *)
(* and of the energy / force evaluators built on it                        *)
(* (Energy_and_Forces.cpp).                                                *)
(*                                                                         *)
(* One sequential driver owns one Nuclear / Electronic / Hamiltonian       *)
(* triple.  pc is the driver's position: "idle" between calls, a position  *)
(* inside compute_adiabatic / compute_potential_energy / compute_forces    *)
(* while such a call is running, "exited" after exit(0).                   *)
(* Doubles are modelled by integers; vectors and the MATRIX storage M[]    *)
(* keep the zero-based indices of the source.                              *)
(***************************************************************************)
EXTENDS Integers, Sequences, FiniteSets, TLC

VARIABLES
  \* ---- Hamiltonian_Atomistic
  rep, status_dia, status_adi, ham_types, mm_ham, interactions,
  q, v, ham_dia, ham_adi, d1ham_dia, d1ham_adi, d2ham_dia,
  \* ---- System bound to the Hamiltonian (_syst)
  Number_of_atoms, syst_q, syst_v, rb_force, d1_written,
  \* ---- Nuclear (mol) and Electronic (el)
  mol_q, f, oob, el_q, el_p, istate,
  \* ---- driver position, current call, outputs
  pc, fn, opt, Epot, errmsg, exit_status,
  \* ---- observation: calculate() call counter, last call, cache miss flag
  ncalc, last, cache_miss, ef_only

hamvars  == <<rep, status_dia, status_adi, ham_types, mm_ham, interactions,
              q, v, ham_dia, ham_adi, d1ham_dia, d1ham_adi, d2ham_dia>>
systvars == <<syst_q, syst_v, rb_force, d1_written>>
molvars  == <<mol_q, f, oob>>
elvars   == <<el_q, el_p, istate>>
ctlvars  == <<pc, fn, opt, Epot, errmsg, exit_status>>
obsvars  == <<ncalc, last, cache_miss, ef_only>>
vars     == <<hamvars, systvars, molvars, elvars, Number_of_atoms, ctlvars, obsvars>>

----------------------------------------------------------------------------
\* Constructor arguments
nelec == 2
nnucl == 3

\* Bounds of the model
MaxCalc == 4      \* calculate() invocations counted per nuclear step
MaxF    == 1      \* mean-field force calls start only while |f[k]| <= MaxF
MaxAtoms == 2     \* atoms of the system a Hamiltonian may be bound to

\* Input sets
QInputs == { [k \in 0..2 |-> 0],
             [k \in 0..2 |-> IF k = 1 THEN 0 ELSE 1],
             [k \in 0..1 |-> 1],
             [k \in 0..3 |-> 1] }
VInputs == { [k \in 0..2 |-> 1], [k \in 0..1 |-> 0], [k \in 0..3 |-> 0] }
MolQs   == { [k \in 0..2 |-> 0], [k \in 0..2 |-> IF k = 1 THEN 0 ELSE 1] }
HamTypeStrings == {"MM", "QM"}
Opts    == {0, 1}
ElConfigs == { [q |-> [i \in 0..1 |-> IF i = 0 THEN 1 ELSE 0],
                p |-> [i \in 0..1 |-> IF i = 0 THEN 1 ELSE 0]],
               [q |-> [i \in 0..1 |-> IF i = 0 THEN 0 ELSE 1],
                p |-> [i \in 0..1 |-> IF i = 0 THEN 0 ELSE 1]] }

----------------------------------------------------------------------------
\* Helpers
Size(x) == Cardinality(DOMAIN x)

RECURSIVE SumSeq(_)
SumSeq(s) == IF s = <<>> THEN 0 ELSE Head(s) + SumSeq(Tail(s))

\* MATRIX(n,n): flat storage M[0..n*n-1], element (i,j) at M[i*n+j]
ZeroMatrix == [m \in 0..(nelec*nelec - 1) |-> 0]
Get(M, i, j) == M[i*nelec + j]
Transpose(M) == [m \in 0..(nelec*nelec - 1) |-> Get(M, m % nelec, m \div nelec)]
MatMul(A, B) ==
  [m \in 0..(nelec*nelec - 1) |->
     SumSeq([t \in 1..nelec |-> Get(A, m \div nelec, t-1) * Get(B, t-1, m % nelec)])]
IsDiagonal(M) == \A i, j \in 0..(nelec-1) : i # j => Get(M, i, j) = 0

----------------------------------------------------------------------------
\* The bound System and the potential model (force-field interactions)
Atoms == 0..(Number_of_atoms - 1)

\* System::set_atomic_q / set_atomic_v: atom a takes entries 3a, 3a+1, 3a+2
set_atomic_q(q_) == [a \in Atoms |-> [c \in 0..2 |-> q_[3*a + c]]]
set_atomic_v(v_) == [a \in Atoms |-> [c \in 0..2 |-> v_[3*a + c]]]

\* The same when the system has more atoms than x has entries: a read past
\* the end of x gives any value
GarbageCoords == {0, 1}
AtomicValues(x) ==
  IF \A a \in Atoms : 3*a + 2 \in DOMAIN x
  THEN { [a \in Atoms |-> [c \in 0..2 |-> x[3*a + c]]] }
  ELSE { R \in [Atoms -> [0..2 -> GarbageCoords \cup {x[k] : k \in DOMAIN x}]] :
           \A a \in Atoms : \A c \in 0..2 :
              3*a + c \in DOMAIN x => R[a][c] = x[3*a + c] }

\* The interactions installed in mm_ham by set_interactions_for_atoms: a
\* harmonic tether and a field term for every atom of the system
AllInteractions ==
  [i \in 1..(2*Number_of_atoms) |->
     [kind |-> IF i % 2 = 1 THEN "harmonic" ELSE "field", atom |-> (i-1) \div 2]]

\* interactions[i].calculate: the energy it returns ...
calculate_energy(I, R) ==
  LET r == R[I.atom]
  IN  IF I.kind = "harmonic" THEN r[0]*r[0] + r[1]*r[1] + r[2]*r[2]
                             ELSE r[0] + 1
\* ... and the force it adds to its atom's rb_force
calculate_force(I, R) ==
  LET r == R[I.atom]
  IN  IF I.kind = "harmonic" THEN [c \in 0..2 |-> -2 * r[c]]
                             ELSE [c \in 0..2 |-> IF c = 0 THEN -1 ELSE 0]

\* Sum of the energies of a list of interactions at atomic coordinates R
PotentialEnergy(L, R) ==
  SumSeq([i \in 1..Len(L) |-> calculate_energy(L[i], R)])
\* Forces accumulated on every atom after zero_forces_and_torques
PotentialForces(L, R) ==
  [a \in Atoms |-> [c \in 0..2 |->
     SumSeq([i \in 1..Len(L) |->
        IF L[i].atom = a THEN calculate_force(L[i], R)[c] ELSE 0])]]

\* Generalized eigensolver with S = 1: every (H_adi, C) with H*C = C*H_adi,
\* H_adi diagonal, C a permutation matrix
PermutationMatrices ==
  { C \in [0..(nelec*nelec - 1) -> {0, 1}] :
      /\ \A i \in 0..(nelec-1) : SumSeq([t \in 1..nelec |-> Get(C, i, t-1)]) = 1
      /\ \A j \in 0..(nelec-1) : SumSeq([t \in 1..nelec |-> Get(C, t-1, j)]) = 1 }
solve_eigen(H) ==
  { sol \in { [H_adi |-> MatMul(MatMul(Transpose(C), H), C), C |-> C] :
                C \in PermutationMatrices } :
      /\ IsDiagonal(sol.H_adi)
      /\ MatMul(H, sol.C) = MatMul(sol.C, sol.H_adi) }

----------------------------------------------------------------------------
\* Hamiltonian_Atomistic::Hamiltonian_Atomistic, with the Nuclear and
\* Electronic objects of the trajectory
Constructed ==
  /\ rep = 0 /\ status_dia = 0 /\ status_adi = 0
  /\ ham_types = [i \in 0..4 |-> 0]
  /\ mm_ham = "null" /\ interactions = <<>>
  /\ q = <<>> /\ v = <<>>
  /\ ham_dia = ZeroMatrix /\ ham_adi = ZeroMatrix
  /\ d1ham_dia = [k \in 0..(nnucl-1) |-> ZeroMatrix]
  /\ d1ham_adi = [k \in 0..(nnucl-1) |-> ZeroMatrix]
  /\ d2ham_dia = [k \in 0..(nnucl*nnucl-1) |-> ZeroMatrix]
  /\ syst_q = [a \in Atoms |-> [c \in 0..2 |-> 0]]
  /\ syst_v = [a \in Atoms |-> [c \in 0..2 |-> 0]]
  /\ rb_force = [a \in Atoms |-> [c \in 0..2 |-> 0]]
  /\ d1_written = {}
  /\ mol_q \in MolQs
  /\ f = [k \in 0..(nnucl-1) |-> 0] /\ oob = FALSE
  /\ \E e \in ElConfigs : el_q = e.q /\ el_p = e.p
  /\ istate \in 0..(nelec-1)
  /\ pc = "idle" /\ fn = "none" /\ opt = 0 /\ Epot = 0
  /\ errmsg = "none" /\ exit_status = -1
  /\ ncalc = 0 /\ last = "init" /\ cache_miss = FALSE /\ ef_only = TRUE

\* ... bound to a system that has the nnucl / 3 atoms the Hamiltonian was
\* declared for
Init ==
  /\ Number_of_atoms = nnucl \div 3
  /\ Constructed

\* ... bound to a system of any size
InitAnySystem ==
  /\ Number_of_atoms \in 0..MaxAtoms
  /\ Constructed

----------------------------------------------------------------------------
\* Bodies of the Hamiltonian_Atomistic methods (shared by every caller)

\* set_Hamiltonian_type(ham_type)
Hamiltonian_set_Hamiltonian_type(ham_type) ==
  IF ham_type = "MM"
  THEN /\ rep' = 0
       /\ IF ham_types[0] = 0
          THEN /\ mm_ham' = "allocated"
               /\ interactions' = <<>>
               /\ ham_types' = [ham_types EXCEPT ![0] = 1]
          ELSE UNCHANGED <<mm_ham, interactions, ham_types>>
       /\ UNCHANGED <<pc, errmsg, exit_status>>
  ELSE /\ errmsg' = "set_Hamiltonian_type" /\ exit_status' = 0 /\ pc' = "exited"
       /\ UNCHANGED <<rep, mm_ham, interactions, ham_types>>

\* Mutant: set_q that leaves the adiabatic flag alone
Mut_set_q_keeps_status_adi(q_, next) ==
  IF Size(q_) # nnucl
  THEN /\ errmsg' = "set_q" /\ exit_status' = 0 /\ pc' = "exited"
       /\ UNCHANGED <<q, status_dia, status_adi, syst_q>>
  ELSE /\ q' = q_
       /\ status_dia' = 0
       /\ syst_q' \in AtomicValues(q_)
       /\ pc' = next
       /\ UNCHANGED <<status_adi, errmsg, exit_status>>

\* Mutant: set_q that stores the vector before it tests the size
Mut_set_q_stores_before_test(q_, next) ==
  IF Size(q_) # nnucl
  THEN /\ q' = q_
       /\ errmsg' = "set_q" /\ exit_status' = 0 /\ pc' = "exited"
       /\ UNCHANGED <<status_dia, status_adi, syst_q>>
  ELSE /\ q' = q_
       /\ status_dia' = 0
       /\ status_adi' = 0
       /\ syst_q' \in AtomicValues(q_)
       /\ pc' = next
       /\ UNCHANGED <<errmsg, exit_status>>

\* set_q(q_); control continues at position next when the size matches
Hamiltonian_set_q(q_, next) ==
  IF Size(q_) # nnucl
  THEN /\ errmsg' = "set_q" /\ exit_status' = 0 /\ pc' = "exited"
       /\ UNCHANGED <<q, status_dia, status_adi, syst_q>>
  ELSE /\ q' = q_
       /\ status_dia' = 0
       /\ status_adi' = 0
       /\ syst_q' \in AtomicValues(q_)
       /\ pc' = next
       /\ UNCHANGED <<errmsg, exit_status>>

\* Mutant: set_v that stores the velocities without invalidating anything
Mut_set_v_keeps_status_adi(v_) ==
  IF Size(v_) # nnucl
  THEN /\ errmsg' = "set_v" /\ exit_status' = 0 /\ pc' = "exited"
       /\ UNCHANGED <<v, status_adi, syst_v>>
  ELSE /\ v' = v_
       /\ syst_v' \in AtomicValues(v_)
       /\ UNCHANGED <<status_adi, pc, errmsg, exit_status>>

\* set_v(v_)
Hamiltonian_set_v(v_) ==
  IF Size(v_) # nnucl
  THEN /\ errmsg' = "set_v" /\ exit_status' = 0 /\ pc' = "exited"
       /\ UNCHANGED <<v, status_adi, syst_v>>
  ELSE /\ v' = v_
       /\ status_adi' = 0
       /\ syst_v' \in AtomicValues(v_)
       /\ UNCHANGED <<pc, errmsg, exit_status>>

\* compute_diabatic(): the branch taken when the result is not up to date
diabatic_recompute ==
  /\ IF ham_types[0] = 1
     THEN LET F   == PotentialForces(interactions, syst_q)
              res == PotentialEnergy(interactions, syst_q)
          IN  /\ rb_force' = F
              /\ ncalc' = ncalc + Len(interactions)
              /\ ham_dia' = [ham_dia EXCEPT ![0] = res]
              /\ ham_adi' = [ham_adi EXCEPT ![0] = res]
              /\ d1ham_dia' = [k \in 0..(nnucl-1) |->
                   IF k \div 3 \in Atoms
                   THEN [d1ham_dia[k] EXCEPT ![0] = -F[k \div 3][k % 3]]
                   ELSE d1ham_dia[k]]
              /\ d1ham_adi' = [k \in 0..(nnucl-1) |->
                   IF k \div 3 \in Atoms
                   THEN [d1ham_adi[k] EXCEPT ![0] = -F[k \div 3][k % 3]]
                   ELSE d1ham_adi[k]]
              /\ d1_written' = {3*a + c : a \in Atoms, c \in 0..2}
              /\ d2ham_dia' = [k \in 0..(nnucl*nnucl-1) |->
                                 [d2ham_dia[k] EXCEPT ![0] = 0]]
     ELSE UNCHANGED <<rb_force, ncalc, ham_dia, ham_adi,
                      d1ham_dia, d1ham_adi, d1_written, d2ham_dia>>
  /\ status_dia' = 1
  /\ cache_miss' = TRUE

\* Mutant: compute_diabatic() without the test of status_dia
Mut_compute_diabatic_unconditional == diabatic_recompute

\* compute_diabatic()
Hamiltonian_compute_diabatic ==
  IF status_dia = 0
  THEN diabatic_recompute
  ELSE /\ cache_miss' = FALSE
       /\ UNCHANGED <<rb_force, ncalc, ham_dia, ham_adi, d1ham_dia, d1ham_adi,
                      d1_written, d2ham_dia, status_dia>>

\* compute_adiabatic(), after its call of compute_diabatic()
Hamiltonian_adiabatic_transform ==
  IF status_adi = 0
  THEN \E sol \in solve_eigen(ham_dia) :
         /\ ham_adi' = sol.H_adi
         /\ d1ham_adi' = [n \in 0..(nnucl-1) |->
               MatMul(MatMul(Transpose(sol.C), d1ham_dia[n]), sol.C)]
         /\ status_adi' = 1
  ELSE UNCHANGED <<ham_adi, d1ham_adi, status_adi>>

----------------------------------------------------------------------------
\* Accessors of the Hamiltonian base class, as complex numbers [re, im]

\* H(i,j): the Hamiltonian in the current representation
H(i, j) ==
  [re |-> IF rep = 0 THEN Get(ham_dia, i, j) ELSE Get(ham_adi, i, j), im |-> 0]

\* dHdq(i,j,k): its derivative along nuclear degree of freedom k
dHdq(i, j, k) ==
  [re |-> IF rep = 0 THEN Get(d1ham_dia[k], i, j) ELSE Get(d1ham_adi[k], i, j),
   im |-> 0]

\* Hvib(i,j): diabatic rep - the Hamiltonian itself; adiabatic rep -
\* H_adi - i*D with D(i,j) = sum_k v[k] * dH_adi[k](i,j) / (E_j - E_i)
Hvib(i, j) ==
  IF rep = 0 \/ i = j THEN H(i, j)
  ELSE LET gap == Get(ham_adi, j, j) - Get(ham_adi, i, i)
           D   == IF gap = 0 \/ Size(v) # nnucl THEN 0
                  ELSE SumSeq([t \in 1..nnucl |->
                          (v[t-1] * Get(d1ham_adi[t-1], i, j)) \div gap])
       IN  [re |-> 0, im |-> -D]

\* State pairs (i,j) in the order of the double loop
Pair(m) == [i |-> (m - 1) \div nelec, j |-> (m - 1) % nelec]

\* compute_potential_energy after compute(): the value returned
PotentialEnergyValue(opt_) ==
  IF opt_ = 0
  THEN SumSeq([m \in 1..(nelec*nelec) |->
         LET i == Pair(m).i
             j == Pair(m).j
         IN  Hvib(i, j).re * (el_q[i]*el_q[j] + el_p[i]*el_p[j])
             + 2 * Hvib(i, j).im * el_p[i] * el_q[j]])
  ELSE IF opt_ = 1 THEN H(istate, istate).re
  ELSE 0

\* What the mean-field double loop subtracts from f[k]
MeanFieldGradient(k) ==
  SumSeq([m \in 1..(nelec*nelec) |->
    LET i == Pair(m).i
        j == Pair(m).j
    IN  dHdq(i, j, k).re * (el_q[i]*el_q[j] + el_p[i]*el_p[j])
        + 2 * dHdq(i, j, k).im * el_p[i] * el_q[j]])

\* Values the uninitialized index k of "mol->f[k] = 0.0" may hold
GarbageK == -1..nnucl

\* Mutant: the single-surface loop accumulates (-=) instead of assigning
Mut_ForcesValue_fssh_accumulates(opt_, kg) ==
  LET f0 == IF nnucl > 0 /\ kg \in 0..(nnucl-1) THEN [f EXCEPT ![kg] = 0] ELSE f
  IN  IF opt_ = 0 THEN [k \in 0..(nnucl-1) |-> f0[k] - MeanFieldGradient(k)]
      ELSE IF opt_ = 1
      THEN [k \in 0..(nnucl-1) |-> f0[k] - dHdq(istate, istate, k).re]
      ELSE f0

\* compute_forces after compute(): f after the zeroing loop run with index kg,
\* then the mode's loop
ForcesValue(opt_, kg) ==
  LET f0 == IF nnucl > 0 /\ kg \in 0..(nnucl-1) THEN [f EXCEPT ![kg] = 0] ELSE f
  IN  IF opt_ = 0 THEN [k \in 0..(nnucl-1) |-> f0[k] - MeanFieldGradient(k)]
      ELSE IF opt_ = 1 THEN [k \in 0..(nnucl-1) |-> -dHdq(istate, istate, k).re]
      ELSE f0

----------------------------------------------------------------------------
\* Driver calls and the steps of the running call

diabatic_data == <<rb_force, d1_written, ncalc, ham_dia, ham_adi, d1ham_dia, d1ham_adi,
                   d2ham_dia, status_dia, cache_miss>>

\* calculate() calls are counted up to MaxCalc between two nuclear steps
CanEvaluate == ncalc + Len(AllInteractions) <= MaxCalc

set_Hamiltonian_type(ham_type) ==
  /\ pc = "idle"
  /\ Hamiltonian_set_Hamiltonian_type(ham_type)
  /\ last' = "set_Hamiltonian_type" /\ ef_only' = FALSE
  /\ UNCHANGED <<status_dia, status_adi, q, v, ham_dia, ham_adi, d1ham_dia,
                 d1ham_adi, d2ham_dia, systvars, molvars, elvars, Number_of_atoms, fn, opt, Epot,
                 ncalc, cache_miss>>

\* set_interactions_for_atoms: delegates to mm_ham, which builds its list
set_interactions_for_atoms ==
  /\ pc = "idle"
  /\ mm_ham = "allocated"
  /\ interactions' = AllInteractions
  /\ last' = "set_interactions_for_atoms" /\ ef_only' = FALSE
  /\ UNCHANGED <<rep, status_dia, status_adi, ham_types, mm_ham, q, v, ham_dia,
                 ham_adi, d1ham_dia, d1ham_adi, d2ham_dia, systvars, molvars,
                 elvars, Number_of_atoms, ctlvars, ncalc, cache_miss>>

set_q(q_) ==
  /\ pc = "idle"
  /\ Hamiltonian_set_q(q_, "idle")
  /\ last' = "set_q" /\ ef_only' = FALSE
  /\ UNCHANGED <<rep, ham_types, mm_ham, interactions, v, ham_dia, ham_adi,
                 d1ham_dia, d1ham_adi, d2ham_dia, syst_v, rb_force, d1_written, molvars,
                 elvars, Number_of_atoms, fn, opt, Epot, ncalc, cache_miss>>

set_v(v_) ==
  /\ pc = "idle"
  /\ Hamiltonian_set_v(v_)
  /\ last' = "set_v" /\ ef_only' = FALSE
  /\ UNCHANGED <<rep, status_dia, ham_types, mm_ham, interactions, q, ham_dia,
                 ham_adi, d1ham_dia, d1ham_adi, d2ham_dia, syst_q, rb_force, d1_written,
                 molvars, elvars, Number_of_atoms, fn, opt, Epot, ncalc, cache_miss>>

compute_diabatic ==
  /\ pc = "idle" /\ CanEvaluate
  /\ Hamiltonian_compute_diabatic
  /\ last' = "compute_diabatic" /\ ef_only' = FALSE
  /\ UNCHANGED <<rep, status_adi, ham_types, mm_ham, interactions, q, v,
                 syst_q, syst_v, molvars, elvars, Number_of_atoms, ctlvars>>

\* Mutant: compute_adiabatic without its call of compute_diabatic()
Mut_compute_adiabatic_skips_diabatic ==
  /\ pc = "idle" /\ CanEvaluate
  /\ pc' = "adi_transform" /\ fn' = "compute_adiabatic"
  /\ last' = "compute_adiabatic" /\ ef_only' = FALSE
  /\ UNCHANGED <<diabatic_data, rep, status_adi, ham_types, mm_ham, interactions,
                 q, v, syst_q, syst_v, molvars, elvars, Number_of_atoms, opt, Epot, errmsg,
                 exit_status>>

\* compute_adiabatic: its first statement, compute_diabatic() ...
compute_adiabatic ==
  /\ pc = "idle" /\ CanEvaluate
  /\ Hamiltonian_compute_diabatic
  /\ pc' = "adi_transform" /\ fn' = "compute_adiabatic"
  /\ last' = "compute_adiabatic" /\ ef_only' = FALSE
  /\ UNCHANGED <<rep, status_adi, ham_types, mm_ham, interactions, q, v,
                 syst_q, syst_v, molvars, elvars, Number_of_atoms, opt, Epot, errmsg, exit_status>>

\* ... and the rest of it, for the driver or for Hamiltonian::compute()
adi_transform ==
  /\ pc = "adi_transform"
  /\ Hamiltonian_adiabatic_transform
  /\ pc' = IF fn = "compute_adiabatic" THEN "idle" ELSE "read"
  /\ fn' = IF fn = "compute_adiabatic" THEN "none" ELSE fn
  /\ UNCHANGED <<rep, status_dia, ham_types, mm_ham, interactions, q, v, ham_dia,
                 d1ham_dia, d2ham_dia, systvars, molvars, elvars, Number_of_atoms, opt, Epot,
                 errmsg, exit_status, obsvars>>

\* compute_potential_energy(mol, el, ham, opt): ham->set_q(mol->q)
compute_potential_energy(opt_) ==
  /\ pc = "idle" /\ CanEvaluate
  /\ Hamiltonian_set_q(mol_q, "compute")
  /\ fn' = "compute_potential_energy" /\ opt' = opt_
  /\ last' = "compute_potential_energy"
  /\ UNCHANGED <<rep, ham_types, mm_ham, interactions, v, ham_dia, ham_adi,
                 d1ham_dia, d1ham_adi, d2ham_dia, syst_v, rb_force, d1_written, molvars,
                 elvars, Number_of_atoms, Epot, ncalc, cache_miss, ef_only>>

\* Mutant: compute_forces without ham->set_q(mol->q)
Mut_compute_forces_skips_set_q(opt_) ==
  /\ pc = "idle" /\ CanEvaluate
  /\ opt_ = 0 => \A k \in 0..(nnucl-1) : -MaxF <= f[k] /\ f[k] <= MaxF
  /\ pc' = "compute"
  /\ fn' = "compute_forces" /\ opt' = opt_
  /\ last' = "compute_forces"
  /\ UNCHANGED <<hamvars, systvars, molvars, elvars, Number_of_atoms, Epot, errmsg, exit_status,
                 ncalc, cache_miss, ef_only>>

\* compute_forces(mol, el, ham, opt): ham->set_q(mol->q)
compute_forces(opt_) ==
  /\ pc = "idle" /\ CanEvaluate
  /\ opt_ = 0 => \A k \in 0..(nnucl-1) : -MaxF <= f[k] /\ f[k] <= MaxF
  /\ Hamiltonian_set_q(mol_q, "compute")
  /\ fn' = "compute_forces" /\ opt' = opt_
  /\ last' = "compute_forces"
  /\ UNCHANGED <<rep, ham_types, mm_ham, interactions, v, ham_dia, ham_adi,
                 d1ham_dia, d1ham_adi, d2ham_dia, syst_v, rb_force, d1_written, molvars,
                 elvars, Number_of_atoms, Epot, ncalc, cache_miss, ef_only>>

\* ham->compute() inside the two evaluators
Hamiltonian_compute ==
  /\ pc = "compute"
  /\ IF rep = 0 THEN Hamiltonian_compute_diabatic /\ pc' = "read"
     ELSE IF rep = 1 THEN Hamiltonian_compute_diabatic /\ pc' = "adi_transform"
     ELSE pc' = "read" /\ UNCHANGED diabatic_data
  /\ UNCHANGED <<rep, status_adi, ham_types, mm_ham, interactions, q, v,
                 syst_q, syst_v, molvars, elvars, Number_of_atoms, fn, opt, Epot, errmsg,
                 exit_status, last, ef_only>>

\* the mixing part of compute_potential_energy and its return
potential_energy_return ==
  /\ pc = "read" /\ fn = "compute_potential_energy"
  /\ Epot' = PotentialEnergyValue(opt)
  /\ pc' = "idle" /\ fn' = "none"
  /\ UNCHANGED <<hamvars, systvars, molvars, elvars, Number_of_atoms, opt, errmsg, exit_status,
                 obsvars>>

\* the zeroing loop and the mixing part of compute_forces, and its return
forces_return ==
  /\ pc = "read" /\ fn = "compute_forces"
  /\ \E kg \in GarbageK :
       /\ f' = ForcesValue(opt, kg)
       /\ oob' = (nnucl > 0 /\ kg \notin 0..(nnucl-1))
  /\ pc' = "idle" /\ fn' = "none"
  /\ UNCHANGED <<hamvars, systvars, mol_q, elvars, Number_of_atoms, opt, Epot, errmsg,
                 exit_status, obsvars>>

\* the integrator moves the nuclei of the trajectory: a new step begins
propagate_nuclei ==
  /\ pc = "idle"
  /\ mol_q' \in MolQs \ {mol_q}
  /\ ncalc' = 0 /\ ef_only' = TRUE /\ last' = "propagate_nuclei"
  /\ UNCHANGED <<hamvars, systvars, f, oob, elvars, Number_of_atoms, ctlvars, cache_miss>>

\* The Hamiltonian_Atomistic object driven directly
Next ==
  \/ \E t \in HamTypeStrings : set_Hamiltonian_type(t)
  \/ set_interactions_for_atoms
  \/ \E q_ \in QInputs : set_q(q_)
  \/ \E v_ \in VInputs : set_v(v_)
  \/ compute_diabatic
  \/ compute_adiabatic
  \/ adi_transform
  \/ propagate_nuclei

Spec == Init /\ [][Next]_vars

\* Selecting the model, installing the interactions, moving the nuclei and
\* evaluating the diabatic Hamiltonian, bound to a system of any size
NextSystem ==
  \/ \E t \in HamTypeStrings : set_Hamiltonian_type(t)
  \/ set_interactions_for_atoms
  \/ \E q_ \in QInputs : set_q(q_)
  \/ compute_diabatic
  \/ propagate_nuclei

SpecSystem == InitAnySystem /\ [][NextSystem]_vars

\* The evaluators of Energy_and_Forces.cpp on a Nuclear / Electronic /
\* Hamiltonian triple, with the Hamiltonian calls a driver makes in between
NextEF ==
  \/ \E t \in HamTypeStrings : set_Hamiltonian_type(t)
  \/ set_interactions_for_atoms
  \/ \E q_ \in QInputs : set_q(q_)
  \/ compute_diabatic
  \/ \E o \in Opts : compute_potential_energy(o)
  \/ \E o \in Opts : compute_forces(o)
  \/ Hamiltonian_compute
  \/ potential_energy_return
  \/ forces_return
  \/ propagate_nuclei

SpecEF == Init /\ [][NextEF]_vars

----------------------------------------------------------------------------
\* Properties

\* What the installed potential model gives at coordinates qv
ModelEnergy(qv) == PotentialEnergy(interactions, set_atomic_q(qv))
ModelGradient(qv, k) ==
  -PotentialForces(interactions, set_atomic_q(qv))[k \div 3][k % 3]
\* ham_dia and d1ham_dia hold the model's values at coordinates qv
HoldsModelAt(qv) ==
  /\ ham_dia[0] = ModelEnergy(qv)
  /\ \A k \in 0..(nnucl-1) : d1ham_dia[k][0] = ModelGradient(qv, k)
\* ... at the atomic coordinates the bound system holds now
HoldsModelAtSystem ==
  /\ ham_dia[0] = PotentialEnergy(interactions, syst_q)
  /\ \A k \in 0..(nnucl-1) :
        d1ham_dia[k][0] = -PotentialForces(interactions, syst_q)[k \div 3][k % 3]

\* C1: a compute_diabatic() call made while the diabatic result is up to date
\* (no set_q since the last one) changes neither ham_dia, ham_adi, any
\* d1ham_dia[k] / d1ham_adi[k] nor the two status flags and calls no
\* interaction's calculate(); a call made on a stale result with the MM model
\* selected calls calculate() once per interaction, so a run of calls at
\* unchanged coordinates evaluates the model once.
C1_CacheIdempotence ==
  [][ /\ (compute_diabatic /\ status_dia = 1) =>
            UNCHANGED <<ham_dia, ham_adi, d1ham_dia, d1ham_adi, d2ham_dia,
                        status_dia, status_adi, rb_force, ncalc>>
      /\ (compute_diabatic /\ status_dia = 0 /\ ham_types[0] = 1) =>
            (ncalc' = ncalc + Len(interactions) /\ status_dia' = 1)
    ]_vars

\* C1 witness: the second of two compute_diabatic() calls has returned, the
\* model was evaluated once and the cache holds its values
C1_Witness ==
  /\ last = "compute_diabatic" /\ pc = "idle" /\ ~cache_miss
  /\ status_dia = 1 /\ ham_types[0] = 1 /\ interactions = AllInteractions
  /\ ncalc = Len(interactions)
  /\ Size(q) = nnucl /\ HoldsModelAt(q) /\ ham_dia[0] > 1

\* C2: set_q with a vector of nnucl entries stores the vector and clears
\* status_dia and status_adi, whatever they were; the compute_diabatic() or
\* compute_adiabatic() call that follows finds the cache stale.
C2_SetQInvalidates ==
  [][ /\ \A q_ \in QInputs : (set_q(q_) /\ Size(q_) = nnucl) =>
            (q' = q_ /\ status_dia' = 0 /\ status_adi' = 0 /\ pc' = "idle")
      /\ ((compute_diabatic \/ compute_adiabatic) /\ last = "set_q") =>
            cache_miss'
    ]_vars

\* C2 witness: set_q has just returned on a Hamiltonian whose matrices still
\* hold the values computed (diabatic and adiabatic) for the other coordinates
C2_Witness ==
  /\ last = "set_q" /\ pc = "idle" /\ Size(q) = nnucl
  /\ status_dia = 0 /\ status_adi = 0
  /\ interactions = AllInteractions /\ ~HoldsModelAt(q)
  /\ ham_dia[0] > 0 /\ ham_adi # ham_dia

\* C3: compute_adiabatic() runs compute_diabatic() first (recomputing when
\* status_dia = 0), so status_dia = 1 when solve_eigen reads ham_dia; the
\* transformation d1ham_adi[k] = C^T d1ham_dia[k] C is then made for every k
\* from the eigenvectors of ham_dia, or skipped when status_adi = 1; on return
\* both flags are 1.
C3_AdiabaticAfterDiabatic ==
  [][ /\ compute_adiabatic =>
            /\ pc' = "adi_transform" /\ status_dia' = 1
            /\ cache_miss' = (status_dia = 0)
            /\ UNCHANGED status_adi
      /\ adi_transform =>
            /\ status_dia = 1
            /\ (cache_miss /\ ham_types[0] = 1) => HoldsModelAtSystem
            /\ status_dia' = 1 /\ status_adi' = 1
            /\ UNCHANGED <<ham_dia, d1ham_dia>>
            /\ status_adi = 1 => UNCHANGED <<ham_adi, d1ham_adi>>
            /\ status_adi = 0 =>
                 \E sol \in solve_eigen(ham_dia) :
                    /\ ham_adi' = sol.H_adi
                    /\ \A k \in 0..(nnucl-1) :
                         d1ham_adi'[k] =
                           MatMul(MatMul(Transpose(sol.C), d1ham_dia[k]), sol.C)
    ]_vars

\* C3 witness: compute_adiabatic() has returned after recomputing the diabatic
\* result and transforming it
C3_Witness ==
  /\ last = "compute_adiabatic" /\ pc = "idle" /\ cache_miss
  /\ status_dia = 1 /\ status_adi = 1
  /\ interactions = AllInteractions /\ ham_dia[0] > 0
  /\ \E k \in 0..(nnucl-1) : d1ham_adi[k] # ZeroMatrix

\* C4: with the trajectory's coordinates unchanged, compute_potential_energy
\* and compute_forces calls in any order and number call each interaction's
\* calculate() at most once in total.
C4_OneEvaluationPerStep ==
  ef_only => ncalc <= Len(interactions)

\* C5: set_q (set_v) with a vector whose size is not nnucl ends the run at
\* that call with the error message, and q, v, both status flags and the
\* system's atomic coordinates and velocities keep their values; no vector of
\* another size than nnucl is ever stored, and nothing runs after the exit.
C5_MismatchFailsFast ==
  [][ /\ \A q_ \in QInputs : (set_q(q_) /\ Size(q_) # nnucl) =>
            /\ pc' = "exited" /\ errmsg' = "set_q"
            /\ UNCHANGED <<q, v, status_dia, status_adi, syst_q, syst_v>>
      /\ \A v_ \in VInputs : (set_v(v_) /\ Size(v_) # nnucl) =>
            /\ pc' = "exited" /\ errmsg' = "set_v"
            /\ UNCHANGED <<q, v, status_dia, status_adi, syst_q, syst_v>>
      /\ Size(q') \in {0, nnucl} /\ Size(v') \in {0, nnucl}
      /\ pc # "exited"
    ]_vars

\* C5 witness: a set_q call with a vector of the wrong size has ended the run
\* of a Hamiltonian that held coordinates and a fresh cache
C5_Witness ==
  /\ pc = "exited" /\ errmsg = "set_q" /\ last = "set_q"
  /\ Size(q) = nnucl /\ syst_q = set_atomic_q(q)
  /\ status_dia = 1 /\ status_adi = 1 /\ Size(v) = nnucl

\* C6: set_Hamiltonian_type with a string other than "MM" gives control back
\* to the driver with an error outcome, never as a successful completion.
C6_UnrecognizedTypePropagates ==
  errmsg = "set_Hamiltonian_type" => (pc = "idle" /\ exit_status # 0)

\* C7: when compute_potential_energy or compute_forces reads Hvib, H or dHdq,
\* the Hamiltonian's coordinates (and its system's) are mol->q, compute() has
\* run in this call on a stale cache, and with a model selected ham_dia and
\* every d1ham_dia[k] hold the model's values at mol->q.
C7_FreshBeforeRead ==
  pc = "read" =>
    /\ q = mol_q /\ syst_q = set_atomic_q(mol_q)
    /\ cache_miss /\ status_dia = 1
    /\ rep = 1 => status_adi = 1
    /\ ham_types[0] = 1 => HoldsModelAt(mol_q)

\* C7 witness: compute_forces is about to read the Hamiltonian it recomputed
\* at the trajectory's coordinates, after the Hamiltonian was set elsewhere
C7_Witness ==
  /\ pc = "read" /\ fn = "compute_forces"
  /\ interactions = AllInteractions /\ HoldsModelAt(mol_q)
  /\ ham_dia[0] > 1 /\ ncalc > Len(interactions)

\* C8: after compute_forces with opt = 0 every f[k] is minus the sum over the
\* state pairs of Re(dHdq)(q_i q_j + p_i p_j) + 2 Im(dHdq) p_i q_j, whatever
\* f held before, and nothing outside f[0..nnucl-1] was written.
C8_MeanFieldForces ==
  (last = "compute_forces" /\ pc = "idle" /\ opt = 0) =>
    /\ \A k \in 0..(nnucl-1) : f[k] = -MeanFieldGradient(k)
    /\ ~oob

\* C9: with opt = 1 compute_potential_energy returns Re(H(istate,istate)) and
\* compute_forces leaves f[k] = -Re(dHdq(istate,istate,k)) for every k: values
\* of the Hamiltonian and istate alone, the same for every el->q, el->p.
C9_SingleSurface ==
  /\ (last = "compute_potential_energy" /\ pc = "idle" /\ opt = 1) =>
        Epot = H(istate, istate).re
  /\ (last = "compute_forces" /\ pc = "idle" /\ opt = 1) =>
        \A k \in 0..(nnucl-1) : f[k] = -dHdq(istate, istate, k).re

\* C9 witness: single-surface forces computed on the state that carries the
\* model's gradient, over forces an earlier call had left
C9_Witness ==
  /\ last = "compute_forces" /\ pc = "idle" /\ opt = 1 /\ istate = 0
  /\ interactions = AllInteractions /\ ncalc > Len(interactions)
  /\ f[0] = -ModelGradient(mol_q, 0) /\ f[0] < -1
  /\ el_q[0] = 0 /\ el_p[0] = 0

\* C10: whenever status_dia = 1 a model is selected and ham_dia and every
\* d1ham_dia[k] hold its energy and gradient at the stored coordinates q.
C10_CacheCoherence ==
  status_dia = 1 =>
    /\ ham_types[0] = 1
    /\ Size(q) = nnucl
    /\ HoldsModelAt(q)

\* C11: in every state status_adi = 1 implies status_dia = 1, so the flags
\* are (0,0), (1,0) or (1,1); set_v with a vector of nnucl entries clears
\* status_adi and leaves status_dia as it was.
C11_FlagOrdering ==
  /\ [](status_adi = 1 => status_dia = 1)
  /\ [][ \A v_ \in VInputs : (set_v(v_) /\ Size(v_) = nnucl) =>
            (status_adi' = 0 /\ status_dia' = status_dia) ]_vars

\* C11 witness: set_v has just returned on a Hamiltonian whose adiabatic
\* matrices are the transform of the diabatic ones it still holds as fresh
C11_Witness ==
  /\ last = "set_v" /\ pc = "idle" /\ Size(v) = nnucl
  /\ status_dia = 1 /\ status_adi = 0
  /\ interactions = AllInteractions /\ ham_adi # ham_dia
  /\ \E sol \in solve_eigen(ham_dia) :
        /\ ham_adi = sol.H_adi
        /\ \A k \in 0..(nnucl-1) :
              d1ham_adi[k] = MatMul(MatMul(Transpose(sol.C), d1ham_dia[k]), sol.C)

\* C12: whatever the number of atoms of the bound system, an evaluation of
\* the force field writes gradient entries 3i, 3i+1, 3i+2 that all lie in
\* 0..nnucl-1 and together cover that range: a system whose atom count does
\* not match nnucl is never evaluated silently.
C12_GradientWritesInRange ==
  ( /\ last \in {"compute_diabatic", "compute_adiabatic"}
    /\ pc # "exited" /\ cache_miss /\ ham_types[0] = 1 )
  => d1_written = 0..(nnucl-1)

====
